---- MODULE Spec2Model ----
(***************************************************************************)
(* Part Plus backend: the Client and Reservation CRUD handlers, their      *)
(* validation middlewares and the two mongoose models, as a state machine. *)
(*                                                                         *)
(* The store is the two MongoDB collections.  Every request occupies a     *)
(* slot; a handler advances one store operation (one await) at a time, so  *)
(* that requests in different slots interleave exactly where the event     *)
(* loop lets them.  The synchronous code between two awaits belongs to the *)
(* step of the await that precedes it.                                     *)
(***************************************************************************)
EXTENDS Integers, FiniteSets, Sequences, TLC

\* ------------------------------------------------------------------ bounds

\* ObjectIds the clients collection hands out: 1..MaxClients.
MaxClients == 2
\* ObjectIds the reservations collection hands out: 1..MaxReservations.
MaxReservations == 1
\* The clock and the scheduled dates run over 0..MaxTime.
MaxTime == 1
\* Requests that can be in flight at once under SpecClients and SpecLists.
MaxInFlight == 2
\* List requests ask for page 1..MaxPage with limit 1..MaxLimit.
MaxPage == 2
MaxLimit == 2
\* The pagination summary is computed for totals 0..MaxTotal, pages
\* 1..MaxSummaryPage and limits 1..MaxSummaryLimit.
MaxTotal == 25
\* Reservations in the store that SpecLists pages through.
MaxListed == 2
MaxSummaryPage == 3
MaxSummaryLimit == 10

\* ----------------------------------------------------------------- domains

\* Emails as callers spell them, before validation normalises them.
RawEmails == {"a@x.com", "A@x.com", "b@x.com"}

StatusValues == {"Pendiente", "En proceso", "Completado", "Cancelado"}

DefaultStatus == "Pendiente"

ActiveStatuses == {"Pendiente", "En proceso"}

Dates == 0..MaxTime

Slots == 1..MaxInFlight

\* A field the request body does not contain ("absent" for a string, the
\* date -1 for a date, AbsentId for an identifier).
Absent == "absent"

\* An identifier as it arrives in a path or a body: the ObjectId it spells
\* (0 is a well-formed id that was never handed out) and how it is spelled.
\* ObjectId strings are 24 hex digits; the digits a-f may come in either case.
IdString(oid, form) == [oid |-> oid, form |-> form]
MalformedId == IdString(0, "malformed")
AbsentId == IdString(0, "absent")

\* mongoose.Types.ObjectId.isValid and express-validator's isMongoId agree on
\* the spellings modelled here: 24 hex digits of either case pass.
isValid(id) == id.form \in {"lower", "upper"}

\* Casting an id string to an ObjectId (what every query does with it).
CastObjectId(id) == id.oid

\* ObjectId.prototype.toString: always the lower-case hex spelling.
toString(oid) == IdString(oid, "lower")

\* String.prototype.toLowerCase on the modelled emails.
toLowerCase(e) == IF e = "A@x.com" THEN "a@x.com" ELSE e

\* express-validator's normalizeEmail(): lower-cases the address.
normalizeEmail(e) == toLowerCase(e)

\* The schema's `lowercase: true` setter, applied when a document or a query
\* filter is cast.
CastEmail(e) == toLowerCase(e)

\* The bodies POST /api/clients is sent: each passes validateClient.
ClientBodies ==
    {[name |-> "Ana Ruiz", email |-> "a@x.com", password |-> "123456",
      phone |-> "+573000000", age |-> 25],
     [name |-> "Ana Ruiz", email |-> "A@x.com", password |-> "123456",
      phone |-> "+573000000", age |-> 25],
     [name |-> "Luis Paz", email |-> "b@x.com", password |-> "abcdef",
      phone |-> "+573000001", age |-> 40]}

\* A body whose phone is an Australian mobile number in national format.
NationalPhoneBodies ==
    {[name |-> "Ana Ruiz", email |-> "a@x.com", password |-> "123456",
      phone |-> "0412345678", age |-> 25]}

\* body("phone").isMobilePhone("any"): the phone is a mobile number of some
\* locale, here +57 3... (es-CO) or 04........ (en-AU).
isMobilePhone(phone) ==
    phone \in {"+573000000", "+573000001", "+573000002", "0412345678"}

\* The schema's match on phone, /^[\+]?[1-9][\d]{0,15}$/: an optional +, a
\* digit from 1 to 9, then up to 15 digits.  A leading 0 does not match.
phoneMatch(phone) == phone \in {"+573000000", "+573000001", "+573000002"}

\* The patches PUT /api/clients/:id is sent that touch other fields than the
\* email: each passes validateClientUpdate.  "absent" (0 for the age) marks a
\* field the patch does not contain.
ClientPatches ==
    {[name |-> Absent, password |-> Absent, phone |-> "+573000002", age |-> 0],
     [name |-> Absent, password |-> "s3cret", phone |-> Absent, age |-> 0],
     [name |-> "Eva Sol", password |-> Absent, phone |-> Absent, age |-> 30]}

\* A stored password: what the field holds and how it came to hold it.
\* bcrypt.hash(password, salt) is a one-way digest of the plaintext under the
\* salt; a string written as it came is the plaintext itself.
hash(password, salt) == [alg |-> "bcrypt", salt |-> salt, of |-> password]

Plaintext(password) == [alg |-> "none", salt |-> 0, of |-> password]

Pages == 1..MaxPage

Limits == 1..MaxLimit

\* ------------------------------------------------------------------- state

VARIABLES
    clients,        \* the clients collection: ObjectId -> document
    reservations,   \* the reservations collection: ObjectId -> document
    clientSeq,      \* the next ObjectId of a new client
    reservationSeq, \* the next ObjectId of a new reservation
    now,            \* the clock, as `new Date()` reads it
    reqs            \* per slot: the request in flight and where it stands

vars == <<clients, reservations, clientSeq, reservationSeq, now, reqs>>

\* The pagination summary of a response that has none.
NoPagination == [currentPage |-> 0, totalPages |-> 0, totalRecords |-> 0,
                 hasNext |-> FALSE, hasPrev |-> FALSE]

\* A slot: the request (path parameters, body, query), the handler's position
\* and locals (saved, total), and the response (code, message, data: the
\* documents of the body's data field, pagination).
Idle == [op |-> "idle", pc |-> "idle", id |-> AbsentId, email |-> Absent,
         clientId |-> AbsentId, scheduledDate |-> -1, status |-> Absent,
         name |-> Absent, password |-> Absent, phone |-> Absent, age |-> 0,
         page |-> 0, limit |-> 0, total |-> 0,
         code |-> 0, message |-> "", saved |-> 0, responses |-> 0,
         data |-> <<>>, pagination |-> NoPagination]

\* A request as the router receives it.
Request(op, id, email, clientId, date, status) ==
    [Idle EXCEPT !.op = op, !.pc = "received", !.id = id, !.email = email,
                 !.clientId = clientId, !.scheduledDate = date,
                 !.status = status]

\* The other fields of a client body or patch.
WithBody(r, b) ==
    [r EXCEPT !.name = b.name, !.password = b.password, !.phone = b.phone,
              !.age = b.age]

\* The page and limit of the query string.
WithPage(r, page, limit) == [r EXCEPT !.page = page, !.limit = limit]

\* res.status(code).json({message, data}).
RespondData(r, code, message, data) ==
    [r EXCEPT !.pc = "done", !.code = code, !.message = message, !.data = data,
              !.responses = @ + 1]

\* res.status(code).json({message}): the request is answered.
Respond(r, code, message) ==
    [r EXCEPT !.pc = "done", !.code = code, !.message = message,
              !.responses = @ + 1]

Goto(r, pc) == [r EXCEPT !.pc = pc]

Init ==
    /\ clients = <<>>
    /\ reservations = <<>>
    /\ clientSeq = 1
    /\ reservationSeq = 1
    /\ now = 0
    /\ reqs = [s \in Slots |-> Idle]

\* Identifiers a caller can name: malformed, never handed out, or handed out.
ClientIdsNamed == 0..(clientSeq - 1)
ReservationIdsNamed == 0..(reservationSeq - 1)

\* --------------------------------------------------------- store operations

\* Client.findOne({ email }): the ids of the documents the filter matches.
FindByEmail(cs, email) == {c \in DOMAIN cs : cs[c].email = CastEmail(email)}

\* Client.findOne({ email, _id: { $ne: id } }).
FindByEmailExcept(cs, email, id) == FindByEmail(cs, email) \ {CastObjectId(id)}

\* The unique index on clients.email: a write that would leave two documents
\* with one email fails with E11000.
DuplicateKeyNoIndex(cs, oid, email) == FALSE

DuplicateKey(cs, oid, email) == FindByEmail(cs, email) \ {oid} # {}

countPendingOnly(rs, oid) ==
    Cardinality({r \in DOMAIN rs :
                    rs[r].clientId = oid /\ rs[r].status = DefaultStatus})

\* Reservation.countDocuments({ clientId, status: { $in: [...] } }).
countActive(rs, oid) ==
    Cardinality({r \in DOMAIN rs :
                    rs[r].clientId = oid /\ rs[r].status \in ActiveStatuses})

\* A function with one more, or one less, document.
Put(coll, oid, doc) ==
    [k \in DOMAIN coll \cup {oid} |-> IF k = oid THEN doc ELSE coll[k]]

Remove(coll, oid) == [k \in DOMAIN coll \ {oid} |-> coll[k]]

\* ----------------------------------------------------------- serialisation

\* doc.toObject(): the stored document with its _id.
toObject(oid, doc) ==
    [_id |-> oid, name |-> doc.name, email |-> doc.email,
     password |-> doc.password, phone |-> doc.phone, age |-> doc.age,
     createdAt |-> doc.createdAt]

\* clientSchema.methods.toJSON: toObject() with the password deleted.
toJSON(oid, doc) ==
    [_id |-> oid, name |-> doc.name, email |-> doc.email,
     phone |-> doc.phone, age |-> doc.age, createdAt |-> doc.createdAt]

selectAll(oid, doc) == toObject(oid, doc)

\* .select("-password"): the projection that leaves the password out.
selectMinusPassword(oid, doc) ==
    [_id |-> oid, name |-> doc.name, email |-> doc.email,
     phone |-> doc.phone, age |-> doc.age, createdAt |-> doc.createdAt]

\* .populate("clientId", "name email phone"): the referenced client, projected
\* to those fields, or nothing when no client has that id.
populate(cs, oid) ==
    IF oid \in DOMAIN cs
    THEN <<[_id |-> oid, name |-> cs[oid].name, email |-> cs[oid].email,
            phone |-> cs[oid].phone]>>
    ELSE <<>>

\* A reservation as a response carries it, its clientId populated.
populated(cs, oid, doc) ==
    [_id |-> oid, clientId |-> populate(cs, doc.clientId),
     status |-> doc.status, scheduledDate |-> doc.scheduledDate]

\* ----------------------------------------------------------------- requests

Free(s) == reqs[s].pc = "idle"

\* Requests in flight that may still insert a document.
Creating(op) ==
    Cardinality({s \in Slots : reqs[s].op = op /\ reqs[s].pc # "done"})

\* validateId then handleValidationErrors: a malformed id ends the request.
validateId(r, next) ==
    IF isValid(r.id) THEN Goto(r, next)
    ELSE Respond(r, 400, "Errores de validacion")

\* The response has been sent; the slot is free again.
Finish(s) ==
    /\ reqs[s].pc = "done"
    /\ reqs' = [reqs EXCEPT ![s] = Idle]
    /\ UNCHANGED <<clients, reservations, clientSeq, reservationSeq, now>>

\* Time passes.
Tick ==
    /\ now < MaxTime
    /\ now' = now + 1
    /\ UNCHANGED <<clients, reservations, clientSeq, reservationSeq, reqs>>

\* ------------------------------------------------------------ createClient

\* POST /api/clients: validateClient normalises the email of a valid body.
ReceiveCreateClient(s) ==
    /\ Free(s)
    /\ clientSeq + Creating("createClient") <= MaxClients
    /\ \E b \in ClientBodies :
          reqs' = [reqs EXCEPT ![s] =
                     Goto(WithBody(Request("createClient", AbsentId,
                                           normalizeEmail(b.email),
                                           AbsentId, -1, Absent), b),
                          "findOne")]
    /\ UNCHANGED <<clients, reservations, clientSeq, reservationSeq, now>>

\* POST /api/clients with a national-format phone: validateClient passes it.
ReceiveCreateClientNationalPhone(s) ==
    /\ Free(s)
    /\ clientSeq + Creating("createClient") <= MaxClients
    /\ \E b \in NationalPhoneBodies :
          /\ isMobilePhone(b.phone)
          /\ reqs' = [reqs EXCEPT ![s] =
                        Goto(WithBody(Request("createClient", AbsentId,
                                              normalizeEmail(b.email),
                                              AbsentId, -1, Absent), b),
                             "findOne")]
    /\ UNCHANGED <<clients, reservations, clientSeq, reservationSeq, now>>

createClientFindOneConflict(r) ==
    IF FindByEmail(clients, r.email) # {}
    THEN Respond(r, 409, "El email ya esta registrado")
    ELSE Goto(r, "save")

\* const existingClient = await Client.findOne({ email }); if (existingClient) ...
createClientFindOne(r) ==
    IF FindByEmail(clients, r.email) # {}
    THEN Respond(r, 400, "El email ya esta registrado")
    ELSE Goto(r, "save")

CreateClientFindOne(s) ==
    /\ reqs[s].op = "createClient" /\ reqs[s].pc = "findOne"
    /\ reqs' = [reqs EXCEPT ![s] = createClientFindOne(reqs[s])]
    /\ UNCHANGED <<clients, reservations, clientSeq, reservationSeq, now>>

\* new Client({ name, email, password, phone, age }), created at time t.
newClient(r, t) ==
    [name |-> r.name, email |-> CastEmail(r.email),
     password |-> Plaintext(r.password), phone |-> r.phone, age |-> r.age,
     createdAt |-> t]

\* clientSchema.pre("save"): the password of a new document is modified, so
\* it is replaced by its bcrypt hash under a fresh salt.
clientPreSave(doc, salt) == [doc EXCEPT !.password = hash(@.of, salt)]

\* A save whose catch does not single out the duplicate key error: the
\* refused insert is answered 500.
CreateClientSaveUnhandled(s) ==
    /\ reqs[s].op = "createClient" /\ reqs[s].pc = "save"
    /\ IF DuplicateKey(clients, clientSeq, reqs[s].email)
       THEN /\ reqs' = [reqs EXCEPT ![s] =
                          Respond(@, 500, "Error al crear el cliente")]
            /\ UNCHANGED <<clients, clientSeq>>
       ELSE LET doc == clientPreSave(newClient(reqs[s], now), clientSeq)
            IN  /\ clients' = Put(clients, clientSeq, doc)
                /\ clientSeq' = clientSeq + 1
                /\ reqs' = [reqs EXCEPT ![s] =
                              [RespondData(@, 201, "Cliente creado exitosamente",
                                           <<toJSON(clientSeq, doc)>>)
                                 EXCEPT !.saved = clientSeq]]
    /\ UNCHANGED <<reservations, reservationSeq, now>>

\* The schema's validation of a new client, of which the phone rule is the
\* one a body that passed validateClient can fail.
clientSchemaValidate(doc) == phoneMatch(doc.phone)

\* await newClient.save(): the schema's validation (a ValidationError has no
\* code 11000 and is answered 500), the hook, then the insert, which the
\* unique index may refuse (error.code === 11000 is answered 400).  The
\* response carries the saved document, serialised by toJSON.
CreateClientSave(s) ==
    /\ reqs[s].op = "createClient" /\ reqs[s].pc = "save"
    /\ IF ~clientSchemaValidate(newClient(reqs[s], now))
       THEN /\ reqs' = [reqs EXCEPT ![s] =
                          Respond(@, 500, "Error al crear el cliente")]
            /\ UNCHANGED <<clients, clientSeq>>
       ELSE IF DuplicateKey(clients, clientSeq, reqs[s].email)
       THEN /\ reqs' = [reqs EXCEPT ![s] =
                          Respond(@, 400, "El email ya esta registrado")]
            /\ UNCHANGED <<clients, clientSeq>>
       ELSE LET doc == clientPreSave(newClient(reqs[s], now), clientSeq)
            IN  /\ clients' = Put(clients, clientSeq, doc)
                /\ clientSeq' = clientSeq + 1
                /\ reqs' = [reqs EXCEPT ![s] =
                              [RespondData(@, 201, "Cliente creado exitosamente",
                                           <<toJSON(clientSeq, doc)>>)
                                 EXCEPT !.saved = clientSeq]]
    /\ UNCHANGED <<reservations, reservationSeq, now>>

\* ------------------------------------------------------------ updateClient

\* PUT /api/clients/:id: validateId, then validateClientUpdate normalises the
\* email when the patch has one.
ReceiveUpdateClient(s) ==
    /\ Free(s)
    /\ \E id \in {MalformedId} \cup
                 {IdString(o, f) : o \in ClientIdsNamed, f \in {"lower", "upper"}},
          e \in RawEmails \cup {Absent} :
          reqs' = [reqs EXCEPT ![s] =
                     validateId(
                       Request("updateClient", id,
                               IF e = Absent THEN Absent ELSE normalizeEmail(e),
                               AbsentId, -1, Absent),
                       IF e = Absent THEN "findByIdAndUpdate"
                                     ELSE "checkEmailUnique")]
    /\ UNCHANGED <<clients, reservations, clientSeq, reservationSeq, now>>

\* PUT /api/clients/:id with a patch of ClientPatches: no email, so
\* checkEmailUnique and the controller's findOne are skipped.
ReceiveUpdateClientProfile(s) ==
    /\ Free(s)
    /\ \E id \in {MalformedId} \cup {IdString(o, "lower") : o \in ClientIdsNamed},
          b \in ClientPatches :
          reqs' = [reqs EXCEPT ![s] =
                     validateId(
                       WithBody(Request("updateClient", id, Absent, AbsentId,
                                        -1, Absent), b),
                       "findByIdAndUpdate")]
    /\ UNCHANGED <<clients, reservations, clientSeq, reservationSeq, now>>

\* existingClient._id.toString() !== id, as checkEmailUnique compares them.
SameIdString(oid, id) == toString(oid) = id

\* The checkEmailUnique middleware (the patch has an email).
checkEmailUnique(r) ==
    IF \E c \in FindByEmail(clients, r.email) : ~SameIdString(c, r.id)
    THEN Respond(r, 400, "El email ya esta registrado")
    ELSE Goto(r, "findOne")

CheckEmailUnique(s) ==
    /\ reqs[s].op = "updateClient" /\ reqs[s].pc = "checkEmailUnique"
    /\ reqs' = [reqs EXCEPT ![s] = checkEmailUnique(reqs[s])]
    /\ UNCHANGED <<clients, reservations, clientSeq, reservationSeq, now>>

\* updateClient's own check: Client.findOne({ email, _id: { $ne: id } }).
updateClientFindOne(r) ==
    IF FindByEmailExcept(clients, r.email, r.id) # {}
    THEN Respond(r, 400, "El email ya esta registrado")
    ELSE Goto(r, "findByIdAndUpdate")

UpdateClientFindOne(s) ==
    /\ reqs[s].op = "updateClient" /\ reqs[s].pc = "findOne"
    /\ reqs' = [reqs EXCEPT ![s] = updateClientFindOne(reqs[s])]
    /\ UNCHANGED <<clients, reservations, clientSeq, reservationSeq, now>>

PatchClientReplace(doc, r) ==
    [name |-> r.name, email |-> CastEmail(r.email),
     password |-> Plaintext(r.password), phone |-> r.phone, age |-> r.age,
     createdAt |-> doc.createdAt]

\* The document after $set of the fields the patch contains.  No save hook
\* runs on findByIdAndUpdate: a password in the patch is written as it came.
PatchClient(doc, r) ==
    [name |-> IF r.name = Absent THEN doc.name ELSE r.name,
     email |-> IF r.email = Absent THEN doc.email ELSE CastEmail(r.email),
     password |-> IF r.password = Absent THEN doc.password
                  ELSE Plaintext(r.password),
     phone |-> IF r.phone = Absent THEN doc.phone ELSE r.phone,
     age |-> IF r.age = 0 THEN doc.age ELSE r.age,
     createdAt |-> doc.createdAt]

\* await Client.findByIdAndUpdate(id, updateData, { new, runValidators }).
UpdateClientFindByIdAndUpdate(s) ==
    LET r == reqs[s]
        oid == CastObjectId(r.id)
    IN  /\ r.op = "updateClient" /\ r.pc = "findByIdAndUpdate"
        /\ IF oid \notin DOMAIN clients
           THEN /\ reqs' = [reqs EXCEPT ![s] =
                              Respond(@, 404, "Cliente no encontrado")]
                /\ UNCHANGED clients
           ELSE IF r.email # Absent /\ DuplicateKey(clients, oid, r.email)
           THEN /\ reqs' = [reqs EXCEPT ![s] =
                              Respond(@, 400, "El email ya esta registrado")]
                /\ UNCHANGED clients
           ELSE LET doc == PatchClient(clients[oid], r)
                IN  /\ clients' = Put(clients, oid, doc)
                    /\ reqs' = [reqs EXCEPT ![s] =
                                  RespondData(@, 200,
                                              "Cliente actualizado exitosamente",
                                              <<selectMinusPassword(oid, doc)>>)]
        /\ UNCHANGED <<reservations, clientSeq, reservationSeq, now>>

\* ------------------------------------------------------------ deleteClient

\* DELETE /api/clients/:id: validateId.
ReceiveDeleteClient(s) ==
    /\ Free(s)
    /\ \E id \in {MalformedId} \cup {IdString(o, "lower") : o \in ClientIdsNamed} :
          reqs' = [reqs EXCEPT ![s] =
                     validateId(Request("deleteClient", id, Absent, AbsentId,
                                        -1, Absent),
                                "countDocuments")]
    /\ UNCHANGED <<clients, reservations, clientSeq, reservationSeq, now>>

\* The guard: activeReservations > 0 answers 400.
deleteClientGuard(r) ==
    IF countActive(reservations, CastObjectId(r.id)) > 0
    THEN Respond(r, 400, "No se puede eliminar el cliente porque tiene reservas activas")
    ELSE Goto(r, "findByIdAndDelete")

DeleteClientCountDocuments(s) ==
    /\ reqs[s].op = "deleteClient" /\ reqs[s].pc = "countDocuments"
    /\ reqs' = [reqs EXCEPT ![s] = deleteClientGuard(reqs[s])]
    /\ UNCHANGED <<clients, reservations, clientSeq, reservationSeq, now>>

DeleteClientCascade(s) ==
    LET r == reqs[s]
        oid == CastObjectId(r.id)
    IN  /\ r.op = "deleteClient" /\ r.pc = "findByIdAndDelete"
        /\ IF oid \notin DOMAIN clients
           THEN /\ reqs' = [reqs EXCEPT ![s] =
                              Respond(@, 404, "Cliente no encontrado")]
                /\ UNCHANGED <<clients, reservations>>
           ELSE /\ clients' = Remove(clients, oid)
                /\ reservations' =
                     [x \in {y \in DOMAIN reservations :
                                reservations[y].clientId # oid} |-> reservations[x]]
                /\ reqs' = [reqs EXCEPT ![s] =
                              Respond(@, 200, "Cliente eliminado exitosamente")]
        /\ UNCHANGED <<clientSeq, reservationSeq, now>>

\* await Client.findByIdAndDelete(id).
DeleteClientFindByIdAndDelete(s) ==
    LET r == reqs[s]
        oid == CastObjectId(r.id)
    IN  /\ r.op = "deleteClient" /\ r.pc = "findByIdAndDelete"
        /\ IF oid \notin DOMAIN clients
           THEN /\ reqs' = [reqs EXCEPT ![s] =
                              Respond(@, 404, "Cliente no encontrado")]
                /\ UNCHANGED clients
           ELSE /\ clients' = Remove(clients, oid)
                /\ reqs' = [reqs EXCEPT ![s] =
                              Respond(@, 200, "Cliente eliminado exitosamente")]
        /\ UNCHANGED <<reservations, clientSeq, reservationSeq, now>>

\* ------------------------------------------------------- createReservation

\* The scheduledDate rule, as the validators, the controllers and the schema
\* each evaluate it against the clock of that moment.
isFuture(date, t) == date > t

\* POST /api/reservations: validateReservation checks the clientId syntax and
\* the future date; a status in the body must be one of StatusValues.
validateReservation(r, t) ==
    IF isValid(r.clientId) /\ isFuture(r.scheduledDate, t)
    THEN Goto(r, "findById")
    ELSE Respond(r, 400, "Errores de validacion")

ReceiveCreateReservation(s) ==
    /\ Free(s)
    /\ reservationSeq + Creating("createReservation") <= MaxReservations
    /\ \E c \in {MalformedId} \cup {IdString(o, "lower") : o \in ClientIdsNamed},
          d \in Dates, st \in StatusValues \cup {Absent} :
          reqs' = [reqs EXCEPT ![s] =
                     validateReservation(
                       Request("createReservation", AbsentId, Absent, c, d, st),
                       now)]
    /\ UNCHANGED <<clients, reservations, clientSeq, reservationSeq, now>>

createReservationChecksDateFirst(r, t) ==
    IF ~isValid(r.clientId)
    THEN Respond(r, 400, "ID de cliente no valido")
    ELSE IF ~(r.scheduledDate > t)
    THEN Respond(r, 400, "La fecha programada debe ser en el futuro")
    ELSE IF CastObjectId(r.clientId) \notin DOMAIN clients
    THEN Respond(r, 404, "Cliente no encontrado")
    ELSE Goto(r, "save")

\* The controller's checks: Client.findById(clientId), then the date.
createReservationChecks(r, t) ==
    IF ~isValid(r.clientId)
    THEN Respond(r, 400, "ID de cliente no valido")
    ELSE IF CastObjectId(r.clientId) \notin DOMAIN clients
    THEN Respond(r, 404, "Cliente no encontrado")
    ELSE IF ~isFuture(r.scheduledDate, t)
    THEN Respond(r, 400, "La fecha programada debe ser en el futuro")
    ELSE Goto(r, "save")

CreateReservationFindById(s) ==
    /\ reqs[s].op = "createReservation" /\ reqs[s].pc = "findById"
    /\ reqs' = [reqs EXCEPT ![s] = createReservationChecks(reqs[s], now)]
    /\ UNCHANGED <<clients, reservations, clientSeq, reservationSeq, now>>

newReservationBodyStatus(r) ==
    [clientId |-> CastObjectId(r.clientId), status |-> r.status,
     scheduledDate |-> r.scheduledDate]

\* new Reservation({ clientId, vehicle, service, scheduledDate, notes }): the
\* body's status is not among the fields passed, so the schema default applies.
newReservation(r) ==
    [clientId |-> CastObjectId(r.clientId), status |-> DefaultStatus,
     scheduledDate |-> r.scheduledDate]

\* newReservation.save(), up to the insert: the schema validates the document
\* (scheduledDate > new Date()), then the pre("save") hook looks the client up.
\* Either failure is thrown and the controller's catch answers 500.
reservationPreSave(r, t) ==
    IF ~isFuture(r.scheduledDate, t)
    THEN Respond(r, 500, "Error al crear la reserva")
    ELSE IF CastObjectId(r.clientId) \notin DOMAIN clients
    THEN Respond(r, 500, "Error al crear la reserva")
    ELSE Goto(r, "insert")

CreateReservationSave(s) ==
    /\ reqs[s].op = "createReservation" /\ reqs[s].pc = "save"
    /\ reqs' = [reqs EXCEPT ![s] = reservationPreSave(reqs[s], now)]
    /\ UNCHANGED <<clients, reservations, clientSeq, reservationSeq, now>>

\* The insert that ends save().
CreateReservationInsert(s) ==
    /\ reqs[s].op = "createReservation" /\ reqs[s].pc = "insert"
    /\ reservations' = Put(reservations, reservationSeq, newReservation(reqs[s]))
    /\ reservationSeq' = reservationSeq + 1
    /\ reqs' = [reqs EXCEPT ![s] = [Goto(@, "populate") EXCEPT
                                      !.saved = reservationSeq]]
    /\ UNCHANGED <<clients, clientSeq, now>>

\* Reservation.findById(savedReservation._id).populate(...), then 201.
CreateReservationPopulate(s) ==
    /\ reqs[s].op = "createReservation" /\ reqs[s].pc = "populate"
    /\ reqs' = [reqs EXCEPT ![s] =
                  RespondData(@, 201, "Reserva creada exitosamente",
                              IF reqs[s].saved \in DOMAIN reservations
                              THEN <<populated(clients, reqs[s].saved,
                                               reservations[reqs[s].saved])>>
                              ELSE <<>>)]
    /\ UNCHANGED <<clients, reservations, clientSeq, reservationSeq, now>>

\* ------------------------------------------------------- updateReservation

\* PUT /api/reservations/:id: validateId, then validateReservationUpdate (a
\* scheduledDate in the patch must be in the future).
validateReservationUpdate(r, t) ==
    IF r.scheduledDate \in Dates /\ ~isFuture(r.scheduledDate, t)
    THEN Respond(r, 400, "Errores de validacion")
    ELSE validateId(r, "checks")

ReceiveUpdateReservation(s) ==
    /\ Free(s)
    /\ \E id \in {MalformedId} \cup
                 {IdString(o, "lower") : o \in ReservationIdsNamed},
          c \in {AbsentId} \cup {IdString(o, "lower") : o \in ClientIdsNamed},
          d \in Dates \cup {-1}, st \in StatusValues \cup {Absent} :
          reqs' = [reqs EXCEPT ![s] =
                     validateReservationUpdate(
                       Request("updateReservation", id, Absent, c, d, st), now)]
    /\ UNCHANGED <<clients, reservations, clientSeq, reservationSeq, now>>

updateReservationChecksNoClient(r, t) ==
    IF r.clientId # AbsentId /\ ~isValid(r.clientId)
    THEN Respond(r, 400, "ID de cliente no valido")
    ELSE IF r.scheduledDate \in Dates /\ ~isFuture(r.scheduledDate, t)
    THEN Respond(r, 400, "La fecha programada debe ser en el futuro")
    ELSE Goto(r, "findByIdAndUpdate")

\* The controller's checks: the client of a patch that has a clientId, the
\* date of a patch that has a scheduledDate.
updateReservationChecks(r, t) ==
    IF r.clientId # AbsentId /\ ~isValid(r.clientId)
    THEN Respond(r, 400, "ID de cliente no valido")
    ELSE IF r.clientId # AbsentId /\ CastObjectId(r.clientId) \notin DOMAIN clients
    THEN Respond(r, 404, "Cliente no encontrado")
    ELSE IF r.scheduledDate \in Dates /\ ~isFuture(r.scheduledDate, t)
    THEN Respond(r, 400, "La fecha programada debe ser en el futuro")
    ELSE Goto(r, "findByIdAndUpdate")

UpdateReservationChecks(s) ==
    /\ reqs[s].op = "updateReservation" /\ reqs[s].pc = "checks"
    /\ reqs' = [reqs EXCEPT ![s] = updateReservationChecks(reqs[s], now)]
    /\ UNCHANGED <<clients, reservations, clientSeq, reservationSeq, now>>

\* A patch under a transition graph in which Completado and Cancelado are
\* final: the stored status of such a reservation is kept.
PatchReservationTerminal(doc, r) ==
    [clientId |-> IF r.clientId = AbsentId THEN doc.clientId
                  ELSE CastObjectId(r.clientId),
     status |-> IF r.status = Absent \/ doc.status \notin ActiveStatuses
                THEN doc.status ELSE r.status,
     scheduledDate |-> IF r.scheduledDate \in Dates THEN r.scheduledDate
                       ELSE doc.scheduledDate]

\* The document after $set of the fields the patch contains.
PatchReservation(doc, r) ==
    [clientId |-> IF r.clientId = AbsentId THEN doc.clientId
                  ELSE CastObjectId(r.clientId),
     status |-> IF r.status = Absent THEN doc.status ELSE r.status,
     scheduledDate |-> IF r.scheduledDate \in Dates THEN r.scheduledDate
                       ELSE doc.scheduledDate]

\* await Reservation.findByIdAndUpdate(id, updateData, { new, runValidators }):
\* the update validators run on the patch's fields first (a thrown
\* ValidationError is answered 500); no pre("save") hook runs.
UpdateReservationFindByIdAndUpdate(s) ==
    LET r == reqs[s]
        oid == CastObjectId(r.id)
    IN  /\ r.op = "updateReservation" /\ r.pc = "findByIdAndUpdate"
        /\ IF r.scheduledDate \in Dates /\ ~isFuture(r.scheduledDate, now)
           THEN /\ reqs' = [reqs EXCEPT ![s] =
                              Respond(@, 500, "Error al actualizar la reserva")]
                /\ UNCHANGED reservations
           ELSE IF oid \notin DOMAIN reservations
           THEN /\ reqs' = [reqs EXCEPT ![s] =
                              Respond(@, 404, "Reserva no encontrada")]
                /\ UNCHANGED reservations
           ELSE LET doc == PatchReservation(reservations[oid], r)
                IN  /\ reservations' = Put(reservations, oid, doc)
                    /\ reqs' = [reqs EXCEPT ![s] =
                                  RespondData(@, 200,
                                              "Reserva actualizada exitosamente",
                                              <<populated(clients, oid, doc)>>)]
        /\ UNCHANGED <<clients, clientSeq, reservationSeq, now>>

\* ------------------------------------------------------- deleteReservation

\* DELETE /api/reservations/:id: validateId.
ReceiveDeleteReservation(s) ==
    /\ Free(s)
    /\ \E id \in {MalformedId} \cup
                 {IdString(o, "lower") : o \in ReservationIdsNamed} :
          reqs' = [reqs EXCEPT ![s] =
                     validateId(Request("deleteReservation", id, Absent,
                                        AbsentId, -1, Absent),
                                "findByIdAndDelete")]
    /\ UNCHANGED <<clients, reservations, clientSeq, reservationSeq, now>>

DeleteReservationIdempotent(s) ==
    LET r == reqs[s]
        oid == CastObjectId(r.id)
    IN  /\ r.op = "deleteReservation" /\ r.pc = "findByIdAndDelete"
        /\ reservations' = Remove(reservations, oid)
        /\ reqs' = [reqs EXCEPT ![s] =
                      Respond(@, 200, "Reserva eliminada exitosamente")]
        /\ UNCHANGED <<clients, clientSeq, reservationSeq, now>>

\* A delete that takes the client's other reservations with it.
DeleteReservationOfClient(s) ==
    LET r == reqs[s]
        oid == CastObjectId(r.id)
    IN  /\ r.op = "deleteReservation" /\ r.pc = "findByIdAndDelete"
        /\ IF oid \notin DOMAIN reservations
           THEN /\ reqs' = [reqs EXCEPT ![s] =
                              Respond(@, 404, "Reserva no encontrada")]
                /\ UNCHANGED reservations
           ELSE /\ reservations' =
                     [k \in {x \in DOMAIN reservations :
                                reservations[x].clientId #
                                  reservations[oid].clientId}
                        |-> reservations[k]]
                /\ reqs' = [reqs EXCEPT ![s] =
                              Respond(@, 200, "Reserva eliminada exitosamente")]
        /\ UNCHANGED <<clients, clientSeq, reservationSeq, now>>

\* await Reservation.findByIdAndDelete(id).
DeleteReservationFindByIdAndDelete(s) ==
    LET r == reqs[s]
        oid == CastObjectId(r.id)
    IN  /\ r.op = "deleteReservation" /\ r.pc = "findByIdAndDelete"
        /\ IF oid \notin DOMAIN reservations
           THEN /\ reqs' = [reqs EXCEPT ![s] =
                              Respond(@, 404, "Reserva no encontrada")]
                /\ UNCHANGED reservations
           ELSE /\ reservations' = Remove(reservations, oid)
                /\ reqs' = [reqs EXCEPT ![s] =
                              Respond(@, 200, "Reserva eliminada exitosamente")]
        /\ UNCHANGED <<clients, clientSeq, reservationSeq, now>>

\* ------------------------------------------------------------ getClientById

\* GET /api/clients/:id: validateId.
ReceiveGetClientById(s) ==
    /\ Free(s)
    /\ \E id \in {MalformedId} \cup {IdString(o, "lower") : o \in ClientIdsNamed} :
          reqs' = [reqs EXCEPT ![s] =
                     validateId(Request("getClientById", id, Absent, AbsentId,
                                        -1, Absent),
                                "findById")]
    /\ UNCHANGED <<clients, reservations, clientSeq, reservationSeq, now>>

getClientByIdFirst(r) ==
    LET oid == CastObjectId(r.id)
        first == CHOOSE c \in DOMAIN clients : \A d \in DOMAIN clients : c <= d
    IN  IF ~isValid(r.id)
        THEN Respond(r, 400, "ID de cliente no valido")
        ELSE IF oid \notin DOMAIN clients
        THEN Respond(r, 404, "Cliente no encontrado")
        ELSE RespondData(r, 200, "",
                         <<selectMinusPassword(first, clients[first])>>)

\* await Client.findById(id).select("-password").
getClientById(r) ==
    LET oid == CastObjectId(r.id)
    IN  IF ~isValid(r.id)
        THEN Respond(r, 400, "ID de cliente no valido")
        ELSE IF oid \notin DOMAIN clients
        THEN Respond(r, 404, "Cliente no encontrado")
        ELSE RespondData(r, 200, "", <<selectMinusPassword(oid, clients[oid])>>)

GetClientByIdFindById(s) ==
    /\ reqs[s].op = "getClientById" /\ reqs[s].pc = "findById"
    /\ reqs' = [reqs EXCEPT ![s] = getClientById(reqs[s])]
    /\ UNCHANGED <<clients, reservations, clientSeq, reservationSeq, now>>

\* ------------------------------------------------------- getReservationById

\* GET /api/reservations/:id: validateId.
ReceiveGetReservationById(s) ==
    /\ Free(s)
    /\ \E id \in {MalformedId} \cup
                 {IdString(o, "lower") : o \in ReservationIdsNamed} :
          reqs' = [reqs EXCEPT ![s] =
                     validateId(Request("getReservationById", id, Absent,
                                        AbsentId, -1, Absent),
                                "findById")]
    /\ UNCHANGED <<clients, reservations, clientSeq, reservationSeq, now>>

\* await Reservation.findById(id).populate("clientId", "name email phone").
getReservationById(r) ==
    LET oid == CastObjectId(r.id)
    IN  IF ~isValid(r.id)
        THEN Respond(r, 400, "ID de reserva no valido")
        ELSE IF oid \notin DOMAIN reservations
        THEN Respond(r, 404, "Reserva no encontrada")
        ELSE RespondData(r, 200, "",
                         <<populated(clients, oid, reservations[oid])>>)

GetReservationByIdFindById(s) ==
    /\ reqs[s].op = "getReservationById" /\ reqs[s].pc = "findById"
    /\ reqs' = [reqs EXCEPT ![s] = getReservationById(reqs[s])]
    /\ UNCHANGED <<clients, reservations, clientSeq, reservationSeq, now>>

\* -------------------------------------------------------------------- lists

\* The orders in which the documents S can come: every one of them once.
Orderings(S) ==
    {o \in [1..Cardinality(S) -> S] :
        \A i, j \in 1..Cardinality(S) : i # j => o[i] # o[j]}

\* .sort({ createdAt: -1 }): newest first.  The store fixes no order among
\* documents whose sort keys are equal, so each query may see any of them.
sortCreatedAtDesc(cs) ==
    {o \in Orderings(DOMAIN cs) :
        \A i, j \in 1..Len(o) :
            i < j => cs[o[i]].createdAt >= cs[o[j]].createdAt}

\* .sort({ scheduledDate: 1 }) of the reservations M: soonest first, the
\* order among equal dates left to the store.
sortScheduledDateAsc(rs, M) ==
    {o \in Orderings(M) :
        \A i, j \in 1..Len(o) :
            i < j => rs[o[i]].scheduledDate <= rs[o[j]].scheduledDate}

\* const skip = (page - 1) * limit.
skip(page, limit) == (page - 1) * limit

\* .limit(limit).skip(skip) of an ordered result.
slice(o, sk, limit) ==
    SubSeq(o, sk + 1, IF sk + limit < Len(o) THEN sk + limit ELSE Len(o))

floor(total, limit) == total \div limit

\* Math.ceil(total / limit).
ceil(total, limit) ==
    IF total % limit = 0 THEN total \div limit ELSE (total \div limit) + 1

\* The pagination object of a list response.
pagination(page, limit, total) ==
    [currentPage |-> page,
     totalPages |-> ceil(total, limit),
     totalRecords |-> total,
     hasNext |-> page * limit < total,
     hasPrev |-> page > 1]

\* The reservations a filter { clientId?, status? } matches.
matching(rs, clientId, status) ==
    {x \in DOMAIN rs :
        /\ clientId # AbsentId => rs[x].clientId = CastObjectId(clientId)
        /\ status # Absent => rs[x].status = status}

\* GET /api/clients?page=&limit= (no validators on the route).
ReceiveGetAllClients(s) ==
    /\ Free(s)
    /\ \E p \in Pages, l \in Limits :
          reqs' = [reqs EXCEPT ![s] =
                     Goto(WithPage(Request("getAllClients", AbsentId, Absent,
                                           AbsentId, -1, Absent), p, l),
                          "find")]
    /\ UNCHANGED <<clients, reservations, clientSeq, reservationSeq, now>>

\* await Client.find(filters).select("-password").limit().skip().sort().
GetAllClientsFind(s) ==
    LET r == reqs[s]
    IN  /\ r.op = "getAllClients" /\ r.pc = "find"
        /\ \E o \in sortCreatedAtDesc(clients) :
              LET page == slice(o, skip(r.page, r.limit), r.limit)
              IN  reqs' = [reqs EXCEPT ![s] =
                             [Goto(@, "countDocuments") EXCEPT !.data =
                                [i \in 1..Len(page) |->
                                   selectMinusPassword(page[i], clients[page[i]])]]]
        /\ UNCHANGED <<clients, reservations, clientSeq, reservationSeq, now>>

\* const total = await Client.countDocuments(filters).
GetAllClientsCountDocuments(s) ==
    /\ reqs[s].op = "getAllClients" /\ reqs[s].pc = "countDocuments"
    /\ reqs' = [reqs EXCEPT ![s] =
                  [Goto(@, "respond") EXCEPT !.total = Cardinality(DOMAIN clients)]]
    /\ UNCHANGED <<clients, reservations, clientSeq, reservationSeq, now>>

\* GET /api/reservations?page=&limit=&status= (no validators on the route).
ReceiveGetAllReservations(s) ==
    /\ Free(s)
    /\ \E p \in Pages, l \in Limits, st \in StatusValues \cup {Absent} :
          reqs' = [reqs EXCEPT ![s] =
                     Goto(WithPage(Request("getAllReservations", AbsentId,
                                           Absent, AbsentId, -1, st), p, l),
                          "find")]
    /\ UNCHANGED <<clients, reservations, clientSeq, reservationSeq, now>>

\* await Reservation.find(filters).populate().limit().skip().sort(), for
\* getAllReservations and getReservationsByClient alike.
ReservationsFind(s) ==
    LET r == reqs[s]
    IN  /\ r.op \in {"getAllReservations", "getReservationsByClient"}
        /\ r.pc = "find"
        /\ \E o \in sortScheduledDateAsc(reservations,
                                         matching(reservations, r.clientId,
                                                  r.status)) :
              LET page == slice(o, skip(r.page, r.limit), r.limit)
              IN  reqs' = [reqs EXCEPT ![s] =
                             [Goto(@, "countDocuments") EXCEPT !.data =
                                [i \in 1..Len(page) |->
                                   populated(clients, page[i],
                                             reservations[page[i]])]]]
        /\ UNCHANGED <<clients, reservations, clientSeq, reservationSeq, now>>

\* const total = await Reservation.countDocuments(filters).
ReservationsCountDocuments(s) ==
    LET r == reqs[s]
    IN  /\ r.op \in {"getAllReservations", "getReservationsByClient"}
        /\ r.pc = "countDocuments"
        /\ reqs' = [reqs EXCEPT ![s] =
                      [Goto(@, "respond") EXCEPT !.total =
                         Cardinality(matching(reservations, r.clientId,
                                              r.status))]]
        /\ UNCHANGED <<clients, reservations, clientSeq, reservationSeq, now>>

\* res.status(200).json({ data, pagination }) of the three list handlers.
ListRespond(s) ==
    LET r == reqs[s]
    IN  /\ r.op \in {"getAllClients", "getAllReservations",
                      "getReservationsByClient"}
        /\ r.pc = "respond"
        /\ reqs' = [reqs EXCEPT ![s] =
                      [Respond(@, 200, "") EXCEPT !.pagination =
                         pagination(r.page, r.limit, r.total)]]
        /\ UNCHANGED <<clients, reservations, clientSeq, reservationSeq, now>>

\* -------------------------------------------------- getReservationsByClient

\* GET /api/reservations/client/:clientId: the route runs validateId, which
\* validates the path parameter "id".  This route has no such parameter, so
\* isMongoId is applied to the empty string.
ReceiveGetReservationsByClient(s) ==
    /\ Free(s)
    /\ \E c \in {MalformedId} \cup {IdString(o, "lower") : o \in ClientIdsNamed},
          p \in Pages, l \in Limits, st \in StatusValues \cup {Absent} :
          reqs' = [reqs EXCEPT ![s] =
                     validateId(WithPage(Request("getReservationsByClient",
                                                 AbsentId, Absent, c, -1, st),
                                         p, l),
                                "findById")]
    /\ UNCHANGED <<clients, reservations, clientSeq, reservationSeq, now>>

\* The controller: isValid(clientId), then await Client.findById(clientId).
getReservationsByClient(r) ==
    IF ~isValid(r.clientId)
    THEN Respond(r, 400, "ID de cliente no valido")
    ELSE IF CastObjectId(r.clientId) \notin DOMAIN clients
    THEN Respond(r, 404, "Cliente no encontrado")
    ELSE Goto(r, "find")

GetReservationsByClientFindById(s) ==
    /\ reqs[s].op = "getReservationsByClient" /\ reqs[s].pc = "findById"
    /\ reqs' = [reqs EXCEPT ![s] = getReservationsByClient(reqs[s])]
    /\ UNCHANGED <<clients, reservations, clientSeq, reservationSeq, now>>

\* ---------------------------------------------------------- specifications

\* No request is in flight.
Quiet == \A s \in Slots : Free(s)

\* One step of the request in slot s.
ClientStep(s) ==
    \/ CreateClientFindOne(s)
    \/ CreateClientSave(s)
    \/ CheckEmailUnique(s)
    \/ UpdateClientFindOne(s)
    \/ UpdateClientFindByIdAndUpdate(s)
    \/ DeleteClientCountDocuments(s)
    \/ DeleteClientFindByIdAndDelete(s)

ReservationStep(s) ==
    \/ CreateReservationFindById(s)
    \/ CreateReservationSave(s)
    \/ CreateReservationInsert(s)
    \/ CreateReservationPopulate(s)
    \/ UpdateReservationChecks(s)
    \/ UpdateReservationFindByIdAndUpdate(s)
    \/ DeleteReservationFindByIdAndDelete(s)

\* One step of the read request in slot s.
ClientReadStep(s) ==
    \/ GetClientByIdFindById(s)
    \/ GetAllClientsFind(s)
    \/ GetAllClientsCountDocuments(s)

ReservationReadStep(s) ==
    \/ GetReservationByIdFindById(s)
    \/ ReservationsFind(s)
    \/ ReservationsCountDocuments(s)

\* The message of the catch block the request is under: checkEmailUnique's
\* own, or the handler's.
catchMessage(r) ==
    IF r.pc = "checkEmailUnique" THEN "Error del servidor"
    ELSE CASE r.op = "createClient" -> "Error al crear el cliente"
           [] r.op = "updateClient" -> "Error al actualizar el cliente"
           [] r.op = "deleteClient" -> "Error al eliminar el cliente"
           [] r.op = "getClientById" -> "Error al obtener el cliente"
           [] r.op = "getAllClients" -> "Error al obtener los clientes"
           [] r.op = "createReservation" -> "Error al crear la reserva"
           [] r.op = "updateReservation" -> "Error al actualizar la reserva"
           [] r.op = "deleteReservation" -> "Error al eliminar la reserva"
           [] r.op = "getReservationById" -> "Error al obtener la reserva"
           [] r.op = "getAllReservations" -> "Error al obtener las reservas"
           [] OTHER -> "Error al obtener las reservas del cliente"

\* The request is waiting for the store: every position but the final
\* res.json of a list, and the checks of an updateReservation whose patch
\* names no client (no Client.findById is issued).
Awaiting(r) ==
    /\ r.pc \notin {"idle", "done", "respond"}
    /\ ~(r.op = "updateReservation" /\ r.pc = "checks" /\ r.clientId = AbsentId)

\* A handler without a catch block: the rejection is unhandled and no
\* response is sent.
StoreErrorUncaught(s) ==
    /\ Awaiting(reqs[s])
    /\ reqs' = [reqs EXCEPT ![s] = Goto(@, "rejected")]
    /\ UNCHANGED <<clients, reservations, clientSeq, reservationSeq, now>>

\* The store operation the request in slot s awaits rejects (the connection
\* is lost, the operation times out): the catch block answers 500.  What the
\* request wrote before stays written.
StoreError(s) ==
    /\ Awaiting(reqs[s])
    /\ reqs' = [reqs EXCEPT ![s] = Respond(@, 500, catchMessage(@))]
    /\ UNCHANGED <<clients, reservations, clientSeq, reservationSeq, now>>

\* Requests arrive one after the other: a request is received only when no
\* other is in flight.  Time passes at any moment.
Next ==
    \/ Quiet /\ ReceiveCreateClient(1)
    \/ Quiet /\ ReceiveCreateClientNationalPhone(1)
    \/ Quiet /\ ReceiveUpdateClient(1)
    \/ Quiet /\ ReceiveDeleteClient(1)
    \/ Quiet /\ ReceiveCreateReservation(1)
    \/ Quiet /\ ReceiveUpdateReservation(1)
    \/ Quiet /\ ReceiveDeleteReservation(1)
    \/ Quiet /\ ReceiveGetClientById(1)
    \/ Quiet /\ ReceiveGetAllClients(1)
    \/ Quiet /\ ReceiveGetReservationById(1)
    \/ Quiet /\ ReceiveGetAllReservations(1)
    \/ Quiet /\ ReceiveGetReservationsByClient(1)
    \/ ClientStep(1)
    \/ ReservationStep(1)
    \/ ClientReadStep(1)
    \/ ReservationReadStep(1)
    \/ ListRespond(1)
    \/ Finish(1)
    \/ Tick

Spec == Init /\ [][Next]_vars

\* The same, over a store whose operations may fail.
NextFaults == Next \/ StoreError(1)

SpecFaults == Init /\ [][NextFaults]_vars

\* The continuation of an await runs when its store operation settles: the
\* operation the request in slot 1 awaits eventually completes or fails, and
\* the synchronous code after it runs to the next await or to the response.
Settle(s) ==
    \/ ClientStep(s)
    \/ ReservationStep(s)
    \/ ClientReadStep(s)
    \/ ReservationReadStep(s)
    \/ ListRespond(s)
    \/ StoreError(s)

SpecLive == Init /\ [][NextFaults]_vars /\ WF_vars(Settle(1))

\* Client requests arrive while others are in flight and interleave at every
\* await.
NextClients ==
    \E s \in Slots :
        \/ ReceiveCreateClient(s)
        \/ ReceiveUpdateClient(s)
        \/ ReceiveDeleteClient(s)
        \/ ClientStep(s)
        \/ Finish(s)

SpecClients == Init /\ [][NextClients]_vars

\* Clients are created, patched (email, name, password, phone, age) and read back,
\* and reservations of them are created, patched and read, one request after
\* the other.
NextProfiles ==
    \/ Quiet /\ ReceiveCreateClient(1)
    \/ Quiet /\ ReceiveUpdateClient(1)
    \/ Quiet /\ ReceiveUpdateClientProfile(1)
    \/ Quiet /\ ReceiveGetClientById(1)
    \/ Quiet /\ ReceiveGetAllClients(1)
    \/ Quiet /\ ReceiveCreateReservation(1)
    \/ Quiet /\ ReceiveUpdateReservation(1)
    \/ Quiet /\ ReceiveGetReservationById(1)
    \/ Quiet /\ ReceiveGetAllReservations(1)
    \/ CreateClientFindOne(1)
    \/ CreateClientSave(1)
    \/ CheckEmailUnique(1)
    \/ UpdateClientFindOne(1)
    \/ UpdateClientFindByIdAndUpdate(1)
    \/ ClientReadStep(1)
    \/ CreateReservationFindById(1)
    \/ CreateReservationSave(1)
    \/ CreateReservationInsert(1)
    \/ CreateReservationPopulate(1)
    \/ UpdateReservationChecks(1)
    \/ UpdateReservationFindByIdAndUpdate(1)
    \/ ReservationReadStep(1)
    \/ ListRespond(1)
    \/ Finish(1)

SpecProfiles == Init /\ [][NextProfiles]_vars

\* The pagination summary on its own: a list handler whose find and
\* countDocuments have resolved, for every total the count can have returned
\* and every page and limit of the query.  The store plays no part in the
\* summary and is left empty.
ListOps == {"getAllClients", "getAllReservations", "getReservationsByClient"}

InitPagination ==
    /\ clients = <<>>
    /\ reservations = <<>>
    /\ clientSeq = 1
    /\ reservationSeq = 1
    /\ now = 0
    /\ \E op \in ListOps, p \in 1..MaxSummaryPage, l \in 1..MaxSummaryLimit,
          t \in 0..MaxTotal :
          reqs = [s \in Slots |->
                    IF s = 1
                    THEN [WithPage(Request(op, AbsentId, Absent, AbsentId, -1,
                                           Absent), p, l)
                            EXCEPT !.pc = "respond", !.total = t]
                    ELSE Idle]

NextPagination == ListRespond(1) \/ Finish(1)

SpecPagination == InitPagination /\ [][NextPagination]_vars

\* Paging through a store that no request changes.  The store holds two
\* clients, created at different times, and MaxListed reservations of the
\* first, with any dates and statuses; list and fetch requests interleave.
ListedStatuses == {"Pendiente", "Completado"}

InitLists ==
    /\ \E t \in [1..2 -> Dates] :
          /\ t[1] < t[2]
          /\ clients =
                [c \in 1..2 |->
                   LET b == CHOOSE x \in ClientBodies :
                                x.email = (IF c = 1 THEN "a@x.com" ELSE "b@x.com")
                   IN  clientPreSave(
                         newClient(WithBody(Request("createClient", AbsentId,
                                                    normalizeEmail(b.email),
                                                    AbsentId, -1, Absent), b),
                                   t[c]),
                         c)]
    /\ \E d \in [1..MaxListed -> Dates], st \in [1..MaxListed -> ListedStatuses] :
          reservations =
            [x \in 1..MaxListed |->
               [clientId |-> 1, status |-> st[x], scheduledDate |-> d[x]]]
    /\ clientSeq = 3
    /\ reservationSeq = MaxListed + 1
    /\ now = MaxTime
    /\ reqs = [s \in Slots |-> Idle]

NextLists ==
    \E s \in Slots :
        \/ ReceiveGetClientById(s)
        \/ ReceiveGetAllClients(s)
        \/ ReceiveGetReservationById(s)
        \/ ReceiveGetAllReservations(s)
        \/ ClientReadStep(s)
        \/ ReservationReadStep(s)
        \/ ListRespond(s)
        \/ Finish(s)

SpecLists == InitLists /\ [][NextLists]_vars

\* Deleting from a store that holds several reservations.  The store holds
\* two clients and MaxListed reservations of the first, with any dates and any
\* of the four statuses; delete and fetch requests interleave.
InitReservations ==
    /\ clients =
          [c \in 1..2 |->
             LET b == CHOOSE x \in ClientBodies :
                          x.email = (IF c = 1 THEN "a@x.com" ELSE "b@x.com")
             IN  clientPreSave(
                   newClient(WithBody(Request("createClient", AbsentId,
                                              normalizeEmail(b.email),
                                              AbsentId, -1, Absent), b),
                             0),
                   c)]
    /\ \E d \in [1..MaxListed -> Dates], st \in [1..MaxListed -> StatusValues] :
          reservations =
            [x \in 1..MaxListed |->
               [clientId |-> 1, status |-> st[x], scheduledDate |-> d[x]]]
    /\ clientSeq = 3
    /\ reservationSeq = MaxListed + 1
    /\ now = MaxTime
    /\ reqs = [s \in Slots |-> Idle]

NextReservations ==
    \E s \in Slots :
        \/ ReceiveDeleteReservation(s)
        \/ DeleteReservationFindByIdAndDelete(s)
        \/ ReceiveGetReservationById(s)
        \/ GetReservationByIdFindById(s)
        \/ Finish(s)

SpecReservations == InitReservations /\ [][NextReservations]_vars

\* A reservation is created for a stored client while the client is being
\* deleted: the store holds one client and no reservation, and
\* createReservation and deleteClient requests interleave at every await.
InitRace ==
    /\ clients =
          [c \in 1..1 |->
             LET b == CHOOSE x \in ClientBodies : x.email = "a@x.com"
             IN  clientPreSave(
                   newClient(WithBody(Request("createClient", AbsentId,
                                              normalizeEmail(b.email),
                                              AbsentId, -1, Absent), b),
                             0),
                   c)]
    /\ reservations = <<>>
    /\ clientSeq = 2
    /\ reservationSeq = 1
    /\ now = 0
    /\ reqs = [s \in Slots |-> Idle]

NextRace ==
    \E s \in Slots :
        \/ ReceiveCreateReservation(s)
        \/ CreateReservationFindById(s)
        \/ CreateReservationSave(s)
        \/ CreateReservationInsert(s)
        \/ CreateReservationPopulate(s)
        \/ ReceiveDeleteClient(s)
        \/ DeleteClientCountDocuments(s)
        \/ DeleteClientFindByIdAndDelete(s)
        \/ Finish(s)

SpecRace == InitRace /\ [][NextRace]_vars

\* ------------------------------------------------------------------ claims

\* The request in slot s takes a step (is received, advances or is answered).
Stepped(s) == reqs'[s] # reqs[s]

InFlight(r) == r.pc \notin {"idle", "done"}

Answered(r, op) == r.op = op /\ r.pc = "done"

NoStoreChange == clients' = clients /\ reservations' = reservations

\* C1: in every state that interleaved createClient, updateClient and
\* deleteClient requests can reach, no two stored clients have the same
\* lower-cased email.
C1_UniqueEmails ==
    \A c1, c2 \in DOMAIN clients :
        c1 # c2 => toLowerCase(clients[c1].email) # toLowerCase(clients[c2].email)

\* A createClient that passed its own findOne check is about to insert an email
\* that another request has stored in the meantime.
C1_Witness ==
    \E s \in Slots :
        /\ reqs[s].op = "createClient" /\ reqs[s].pc = "save"
        /\ FindByEmail(clients, reqs[s].email) # {}

\* C2: whenever a createClient request whose email a stored client holds takes
\* a step, that step answers it 400 "El email ya esta registrado" and leaves
\* the clients collection as it was.
C2_DuplicateCreateRejected ==
    [][\A s \in Slots :
          (/\ Stepped(s)
           /\ reqs[s].op = "createClient" /\ InFlight(reqs[s])
           /\ FindByEmail(clients, reqs[s].email) # {})
          => (/\ reqs'[s].pc = "done"
              /\ reqs'[s].code = 400
              /\ reqs'[s].message = "El email ya esta registrado"
              /\ clients' = clients /\ clientSeq' = clientSeq)]_vars

\* A createClient was answered 400 while a stored client holds its email.
C2_Witness ==
    \E s \in Slots :
        /\ Answered(reqs[s], "createClient") /\ reqs[s].code = 400
        /\ FindByEmail(clients, reqs[s].email) # {}

\* C3: a step of an updateClient request whose patch has an email (a) answers
\* 400 and changes no client when a different stored client holds that email,
\* and (b) never answers anything but 200 when the email is the current one of
\* the client the (well-formed) id names.
C3_UpdateEmailRule ==
    [][\A s \in Slots :
          LET r == reqs[s]
              oid == CastObjectId(r.id)
          IN  (/\ Stepped(s)
               /\ r.op = "updateClient" /\ InFlight(r) /\ r.email # Absent)
              => /\ FindByEmailExcept(clients, r.email, r.id) # {}
                    => (/\ reqs'[s].pc = "done" /\ reqs'[s].code = 400
                        /\ clients' = clients)
                 /\ (oid \in DOMAIN clients
                       /\ clients[oid].email = CastEmail(r.email))
                    => (reqs'[s].pc = "done" => reqs'[s].code = 200)]_vars

\* C4: a step of a deleteClient request naming a stored client that owns a
\* Pendiente or En proceso reservation answers 400 and leaves the clients and
\* the reservations as they were.
C4_ActiveReservationsBlockDelete ==
    [][\A s \in Slots :
          LET r == reqs[s]
              oid == CastObjectId(r.id)
          IN  (/\ Stepped(s)
               /\ r.op = "deleteClient" /\ InFlight(r)
               /\ oid \in DOMAIN clients
               /\ \E x \in DOMAIN reservations :
                     /\ reservations[x].clientId = oid
                     /\ reservations[x].status \in {"Pendiente", "En proceso"})
              => (/\ reqs'[s].pc = "done"
                  /\ reqs'[s].code = 400
                  /\ reqs'[s].message =
                       "No se puede eliminar el cliente porque tiene reservas activas"
                  /\ NoStoreChange)]_vars

\* A deleteClient was refused for a stored client whose reservation is
\* En proceso.
C4_Witness ==
    \E s \in Slots :
        /\ Answered(reqs[s], "deleteClient") /\ reqs[s].code = 400
        /\ CastObjectId(reqs[s].id) \in DOMAIN clients
        /\ \E x \in DOMAIN reservations :
              /\ reservations[x].clientId = CastObjectId(reqs[s].id)
              /\ reservations[x].status = "En proceso"

\* C5: a deleteClient request naming a stored client that owns no Pendiente or
\* En proceso reservation passes the guard without touching the store, and its
\* delete step answers 200, removes exactly that client and leaves every
\* reservation and every other client as it was.
C5_DeleteRemovesOnlyTheClient ==
    [][\A s \in Slots :
          LET r == reqs[s]
              oid == CastObjectId(r.id)
          IN  (/\ Stepped(s)
               /\ r.op = "deleteClient" /\ InFlight(r)
               /\ oid \in DOMAIN clients
               /\ ~\E x \in DOMAIN reservations :
                     /\ reservations[x].clientId = oid
                     /\ reservations[x].status \in {"Pendiente", "En proceso"})
              => /\ r.pc = "countDocuments"
                    => (reqs'[s].pc = "findByIdAndDelete" /\ NoStoreChange)
                 /\ r.pc = "findByIdAndDelete"
                    => (/\ reqs'[s].pc = "done" /\ reqs'[s].code = 200
                        /\ DOMAIN clients' = DOMAIN clients \ {oid}
                        /\ \A c \in DOMAIN clients' : clients'[c] = clients[c]
                        /\ reservations' = reservations)]_vars

\* A client was deleted with 200 while a Completado or Cancelado reservation of
\* that client stays stored.
C5_Witness ==
    \E s \in Slots :
        /\ Answered(reqs[s], "deleteClient") /\ reqs[s].code = 200
        /\ CastObjectId(reqs[s].id) \notin DOMAIN clients
        /\ \E x \in DOMAIN reservations :
              /\ reservations[x].clientId = CastObjectId(reqs[s].id)
              /\ reservations[x].status \in {"Completado", "Cancelado"}

\* C6: every stored reservation whose status is Pendiente or En proceso
\* references a client that is stored.
C6_ActiveReservationHasClient ==
    \A x \in DOMAIN reservations :
        reservations[x].status \in {"Pendiente", "En proceso"}
        => reservations[x].clientId \in DOMAIN clients

\* C7 as stated: a createReservation request whose clientId is well-formed and
\* names no stored client is answered 404.
C7_MissingClientAlways404 ==
    \A s \in Slots :
        (/\ Answered(reqs[s], "createReservation")
         /\ isValid(reqs[s].clientId)
         /\ CastObjectId(reqs[s].clientId) \notin DOMAIN clients)
        => reqs[s].code = 404

\* C7, amended: a createReservation request that passed validateReservation
\* (its scheduledDate was in the future then) and whose well-formed clientId
\* names no stored client is answered 404 "Cliente no encontrado" by its next
\* step, which leaves the reservations as they were; it has stored none.
C7_MissingClient404 ==
    [][\A s \in Slots :
          LET r == reqs[s]
          IN  (/\ Stepped(s)
               /\ r.op = "createReservation" /\ r.pc = "findById"
               /\ isValid(r.clientId)
               /\ CastObjectId(r.clientId) \notin DOMAIN clients)
              => (/\ reqs'[s].pc = "done"
                  /\ reqs'[s].code = 404
                  /\ reqs'[s].message = "Cliente no encontrado"
                  /\ reqs'[s].saved = 0
                  /\ reservations' = reservations
                  /\ reservationSeq' = reservationSeq)]_vars

\* A createReservation naming a client that was deleted was answered 404 after
\* its scheduledDate had stopped being in the future.
C7_Witness ==
    \E s \in Slots :
        /\ Answered(reqs[s], "createReservation") /\ reqs[s].code = 404
        /\ CastObjectId(reqs[s].clientId) # 0
        /\ CastObjectId(reqs[s].clientId) \notin DOMAIN clients
        /\ reqs[s].scheduledDate <= now

\* C8: for a createReservation request naming a stored client, every
\* evaluation of the date rule (validateReservation on receipt, the controller
\* after findById, the schema validator in save) that finds
\* scheduledDate <= now answers 400 and stores nothing; when the date is in the
\* future the request goes on, the insert stores exactly one reservation and
\* the answer is 201.
C8_DateRule ==
    [][\A s \in Slots :
          LET r == reqs[s]
              q == reqs'[s]
          IN  (/\ Stepped(s)
               /\ q.op = "createReservation"
               /\ isValid(q.clientId)
               /\ CastObjectId(q.clientId) \in DOMAIN clients)
              => /\ (r.pc \in {"idle", "findById", "save"}
                      /\ q.scheduledDate <= now)
                    => (/\ q.pc = "done" /\ q.code = 400
                        /\ reservations' = reservations)
                 /\ (r.pc \in {"idle", "findById", "save"}
                      /\ q.scheduledDate > now)
                    => (q.pc # "done" /\ reservations' = reservations)
                 /\ r.pc = "insert"
                    => (/\ DOMAIN reservations' = DOMAIN reservations \cup {q.saved}
                        /\ q.saved \notin DOMAIN reservations
                        /\ \A x \in DOMAIN reservations :
                              reservations'[x] = reservations[x])
                 /\ r.pc = "populate"
                    => (q.pc = "done" /\ q.code = 201)]_vars

\* C9: the reservation a createReservation request without a status stored is
\* Pendiente (for as long as the request is in its slot).
C9_DefaultStatus ==
    \A s \in Slots :
        (/\ reqs[s].op = "createReservation"
         /\ reqs[s].saved # 0
         /\ reqs[s].status = Absent)
        => /\ reqs[s].saved \in DOMAIN reservations
           /\ reservations[reqs[s].saved].status = "Pendiente"

\* A createReservation without a status was answered 201.
C9_Witness ==
    \E s \in Slots :
        /\ Answered(reqs[s], "createReservation") /\ reqs[s].code = 201
        /\ reqs[s].status = Absent
        /\ reqs[s].saved \in DOMAIN reservations

\* C10: the reservation a createReservation request with a status in its body
\* stored has that status.
C10_ExplicitStatus ==
    \A s \in Slots :
        (/\ reqs[s].op = "createReservation"
         /\ reqs[s].saved # 0
         /\ reqs[s].status # Absent)
        => /\ reqs[s].saved \in DOMAIN reservations
           /\ reservations[reqs[s].saved].status = reqs[s].status

\* C11: after any sequence of createClient and updateClient requests, patches
\* with a password included, the password every client stores is a bcrypt
\* hash and not the plaintext a caller supplied.
C11_PasswordsHashed ==
    \A c \in DOMAIN clients :
        /\ clients[c].password.alg = "bcrypt"
        /\ clients[c].password # Plaintext(clients[c].password.of)

\* The client documents a response body carries: the documents of its data
\* field and the clients populated into them.
ClientsInBody(r) ==
    {r.data[i] : i \in {j \in 1..Len(r.data) : "clientId" \notin DOMAIN r.data[j]}}
    \cup UNION {{r.data[i].clientId[k] : k \in 1..Len(r.data[i].clientId)} :
                  i \in {j \in 1..Len(r.data) : "clientId" \in DOMAIN r.data[j]}}

\* C12: no client document in the response body of any request, in any
\* reachable state, has a password field.
C12_NoPasswordInResponses ==
    \A s \in Slots : \A d \in ClientsInBody(reqs[s]) : "password" \notin DOMAIN d

\* An updateClient that set a password was answered 200 with the updated
\* client in its body, and a reservation response carries its owning client.
C12_Witness ==
    /\ Answered(reqs[1], "updateClient") /\ reqs[1].code = 200
    /\ reqs[1].password # Absent
    /\ ClientsInBody(reqs[1]) # {}
    /\ \E x \in DOMAIN reservations : reservations[x].clientId \in DOMAIN clients

\* C13: a getReservationsByClient request with a well-formed clientId is
\* answered 200 with the stored reservations of that client (of the given
\* status when the query has one) when the client is stored, and 404 when it
\* is not.
C13_ReservationsOfClient ==
    \A s \in Slots :
        LET r == reqs[s]
            M == matching(reservations, r.clientId, r.status)
        IN  (Answered(r, "getReservationsByClient") /\ isValid(r.clientId))
            => IF CastObjectId(r.clientId) \in DOMAIN clients
               THEN /\ r.code = 200
                    /\ r.pagination.totalRecords = Cardinality(M)
                    /\ \A i \in 1..Len(r.data) : r.data[i]._id \in M
               ELSE r.code = 404

\* C14: a deleteClient request whose well-formed id names no stored client is
\* answered 404, whatever the reservations that still reference the id.
C14_DeleteMissingClient404 ==
    \A s \in Slots :
        (/\ Answered(reqs[s], "deleteClient")
         /\ isValid(reqs[s].id)
         /\ CastObjectId(reqs[s].id) \notin DOMAIN clients
         /\ reqs[s].code # 200)
        => reqs[s].code = 404

\* The handlers C15 is about, and the collection each looks its id up in.
ByIdOps == {"getClientById", "updateClient", "getReservationById",
            "updateReservation", "deleteReservation"}

Matches(r) ==
    IF r.op \in {"getClientById", "updateClient"}
    THEN CastObjectId(r.id) \in DOMAIN clients
    ELSE CastObjectId(r.id) \in DOMAIN reservations

\* The body would be accepted for an id that matches: its email is held by no
\* client, its clientId names a stored client, its scheduledDate is in the
\* future.
OtherwiseValid(r) ==
    /\ r.email # Absent => FindByEmail(clients, r.email) = {}
    /\ r.clientId # AbsentId => CastObjectId(r.clientId) \in DOMAIN clients
    /\ r.scheduledDate \in Dates => isFuture(r.scheduledDate, now)

\* C15: for getClientById, updateClient, getReservationById, updateReservation
\* and deleteReservation, a request with a malformed id is answered 400 on
\* receipt; a request with a well-formed id that matches no record and an
\* otherwise valid body is never answered anything but 404; in both cases no
\* step of the request changes the clients or the reservations.
C15_InvalidIdAndNotFound ==
    [][\A s \in Slots :
          LET r == reqs[s]
              q == reqs'[s]
          IN  (Stepped(s) /\ q.op \in ByIdOps /\ r.pc # "done")
              => /\ ~isValid(q.id)
                    => (q.pc = "done" /\ q.code = 400 /\ NoStoreChange)
                 /\ (isValid(q.id) /\ ~Matches(q) /\ OtherwiseValid(q))
                    => (/\ NoStoreChange
                        /\ clientSeq' = clientSeq
                        /\ reservationSeq' = reservationSeq
                        /\ q.pc = "done" => q.code = 404)]_vars

\* An updateReservation that names a deleted reservation and patches its
\* status and its client was answered 404 "Reserva no encontrada".
C15_Witness ==
    \E s \in Slots :
        /\ Answered(reqs[s], "updateReservation") /\ reqs[s].code = 404
        /\ reqs[s].message = "Reserva no encontrada"
        /\ CastObjectId(reqs[s].id) # 0
        /\ reqs[s].status # Absent
        /\ reqs[s].clientId # AbsentId

\* C16: the pagination summary of an answered list request has currentPage =
\* page, totalPages = the least n with n * limit >= total, hasNext =
\* (page * limit < total) and hasPrev = (page > 1); with total 25 and limit 10
\* totalPages is 3, page 1 has a next and no previous page, page 3 a previous
\* and no next page.
C16_PaginationSummary ==
    \A s \in Slots :
        LET r == reqs[s]
            g == r.pagination
        IN  (r.op \in ListOps /\ r.pc = "done" /\ r.code = 200)
            => /\ g.currentPage = r.page
               /\ g.totalRecords = r.total
               /\ g.totalPages \in 0..r.total
               /\ g.totalPages * r.limit >= r.total
               /\ g.totalPages > 0 => (g.totalPages - 1) * r.limit < r.total
               /\ g.hasNext = (r.page * r.limit < r.total)
               /\ g.hasPrev = (r.page > 1)
               /\ (r.total = 25 /\ r.limit = 10)
                  => /\ g.totalPages = 3
                     /\ r.page = 1 => (g.hasNext /\ ~g.hasPrev)
                     /\ r.page = 3 => (~g.hasNext /\ g.hasPrev)

\* Page 3 of 25 records in pages of 10 was answered.
C16_Witness ==
    \E s \in Slots :
        /\ reqs[s].op \in ListOps /\ reqs[s].pc = "done" /\ reqs[s].code = 200
        /\ reqs[s].total = 25 /\ reqs[s].limit = 10 /\ reqs[s].page = 3

\* The ids of the documents a list response carries, in their order.
Ids(r) == [i \in 1..Len(r.data) |-> r.data[i]._id]

\* The records a list request matches and the orders its sort allows.
Matched(r) ==
    IF r.op = "getAllClients" THEN DOMAIN clients
    ELSE matching(reservations, r.clientId, r.status)

SortOrders(r) ==
    IF r.op = "getAllClients" THEN sortCreatedAtDesc(clients)
    ELSE sortScheduledDateAsc(reservations, Matched(r))

AnsweredList(r) ==
    r.op \in {"getAllClients", "getAllReservations"} /\ r.pc = "done"

\* Every answered list request carries the records at positions
\* (p-1)*l+1 .. min(p*l, total) of its matching records in sort order.
C17_PageIsSlice ==
    \A s \in Slots :
        AnsweredList(reqs[s])
        => \E o \in SortOrders(reqs[s]) :
              Ids(reqs[s]) =
                SubSeq(o, (reqs[s].page - 1) * reqs[s].limit + 1,
                       IF reqs[s].page * reqs[s].limit < Len(o)
                       THEN reqs[s].page * reqs[s].limit ELSE Len(o))

\* Whenever the answers to pages 1..totalPages of one list query (same
\* handler, limit and filter) are at hand, every matching record is on exactly
\* one of them, once.
C17_PagesPartition ==
    \A s \in Slots :
        LET r == reqs[s]
            n == r.pagination.totalPages
        IN  AnsweredList(r)
            => \A f \in [1..n -> Slots] :
                  (\A p \in 1..n :
                      /\ AnsweredList(reqs[f[p]])
                      /\ reqs[f[p]].op = r.op
                      /\ reqs[f[p]].status = r.status
                      /\ reqs[f[p]].limit = r.limit
                      /\ reqs[f[p]].page = p)
                  => \A x \in Matched(r) :
                        Cardinality({pi \in (1..n) \X (1..r.limit) :
                                       /\ pi[2] <= Len(reqs[f[pi[1]]].data)
                                       /\ reqs[f[pi[1]]].data[pi[2]]._id = x}) = 1

\* C17: a list request for page p with limit l returns the records at
\* positions (p-1)*l+1 .. min(p*l, total) of the matching records, clients
\* newest first and reservations soonest first, and with the store unchanged
\* pages 1..totalPages together contain every matching record exactly once.
C17_Pages == C17_PageIsSlice /\ C17_PagesPartition

C19_CreateThenGetRoundTrip ==
    [][\A s \in Slots :
          LET r == reqs[s]
              q == reqs'[s]
              oid == CastObjectId(r.id)
          IN  /\ (/\ Stepped(s) /\ r.op = "createClient" /\ InFlight(r)
                  /\ q.pc = "done" /\ q.code = 201)
                 => /\ q.saved \notin DOMAIN clients
                    /\ q.saved \in DOMAIN clients'
                    /\ clients'[q.saved].name = r.name
                    /\ clients'[q.saved].email = toLowerCase(r.email)
                    /\ clients'[q.saved].phone = r.phone
                    /\ clients'[q.saved].age = r.age
                    /\ Len(q.data) = 1
                    /\ q.data[1]._id = q.saved
              /\ (/\ Stepped(s) /\ r.op = "getClientById" /\ r.pc = "findById"
                  /\ oid \in DOMAIN clients)
                 => /\ q.pc = "done" /\ q.code = 200
                    /\ clients' = clients
                    /\ Len(q.data) = 1
                    /\ q.data[1]._id = oid
                    /\ q.data[1].name = clients[oid].name
                    /\ q.data[1].email = clients[oid].email
                    /\ q.data[1].phone = clients[oid].phone
                    /\ q.data[1].age = clients[oid].age
                    /\ "password" \notin DOMAIN q.data[1]]_vars

\* The second client created was fetched by id and came back with the name,
\* email (lower case), phone and age of a creation body.
C19_Witness ==
    \E s \in Slots :
        LET r == reqs[s]
        IN  /\ Answered(r, "getClientById") /\ r.code = 200
            /\ CastObjectId(r.id) = 2
            /\ Len(r.data) = 1
            /\ \E b \in ClientBodies :
                  /\ r.data[1].name = b.name
                  /\ r.data[1].email = toLowerCase(b.email)
                  /\ r.data[1].phone = b.phone
                  /\ r.data[1].age = b.age

\* C20 as stated: an updateReservation request that names a stored reservation
\* and whose patch has a clientId that names no stored client is answered 404.
C20_MissingClientAlways404 ==
    \A s \in Slots :
        (/\ Answered(reqs[s], "updateReservation")
         /\ CastObjectId(reqs[s].id) \in DOMAIN reservations
         /\ reqs[s].clientId # AbsentId
         /\ isValid(reqs[s].clientId)
         /\ CastObjectId(reqs[s].clientId) \notin DOMAIN clients)
        => reqs[s].code = 404

\* C20, amended: an updateReservation request that passed validateId and
\* validateReservationUpdate and whose patch has a clientId that names no
\* stored client is answered 404 "Cliente no encontrado" by the controller's
\* check, which leaves the reservations as they were; the check of a request
\* whose patch has no clientId never answers "Cliente no encontrado", and its
\* update step answers 200 whenever the reservation is stored and the patch
\* has no scheduledDate, whether the reservation's client is stored or not.
C20_PatchedClientMustExist ==
    [][\A s \in Slots :
          LET r == reqs[s]
              q == reqs'[s]
          IN  (Stepped(s) /\ r.op = "updateReservation" /\ InFlight(r))
              => /\ (/\ r.pc = "checks" /\ r.clientId # AbsentId
                     /\ CastObjectId(r.clientId) \notin DOMAIN clients)
                    => (/\ q.pc = "done" /\ q.code = 404
                        /\ q.message = "Cliente no encontrado"
                        /\ NoStoreChange)
                 /\ r.clientId = AbsentId
                    => /\ q.message # "Cliente no encontrado"
                       /\ (/\ r.pc = "findByIdAndUpdate"
                            /\ CastObjectId(r.id) \in DOMAIN reservations
                            /\ r.scheduledDate = -1)
                          => (q.pc = "done" /\ q.code = 200)]_vars

\* A patch of the status alone was answered 200 for a reservation whose client
\* is no longer stored.
C20_Witness ==
    \E s \in Slots :
        LET r == reqs[s]
            oid == CastObjectId(r.id)
        IN  /\ Answered(r, "updateReservation") /\ r.code = 200
            /\ r.clientId = AbsentId /\ r.status # Absent
            /\ oid \in DOMAIN reservations
            /\ reservations[oid].clientId \notin DOMAIN clients

\* C21: for an updateReservation request naming a stored reservation (and, if
\* its patch names a client, a stored one), every evaluation of the date rule
\* (validateReservationUpdate on receipt, the controller's check, the update
\* validators of findByIdAndUpdate) that finds the patch's scheduledDate <= now
\* answers 400 and leaves the reservations unchanged; a patch without a
\* scheduledDate is never rejected for the stored date and is answered 200.
C21_UpdateDateRule ==
    [][\A s \in Slots :
          LET r == reqs[s]
              q == reqs'[s]
          IN  (/\ Stepped(s)
               /\ q.op = "updateReservation"
               /\ r.pc \in {"idle", "checks", "findByIdAndUpdate"}
               /\ isValid(q.id)
               /\ CastObjectId(q.id) \in DOMAIN reservations
               /\ q.clientId # AbsentId
                  => CastObjectId(q.clientId) \in DOMAIN clients)
              => /\ (q.scheduledDate \in Dates /\ q.scheduledDate <= now)
                    => (/\ q.pc = "done" /\ q.code = 400
                        /\ reservations' = reservations)
                 /\ (q.scheduledDate \notin Dates
                      /\ r.pc = "findByIdAndUpdate")
                    => (q.pc = "done" /\ q.code = 200)]_vars

\* C22: no status transition is refused: an updateReservation request whose
\* patch is {status: t} alone, naming a stored reservation, passes the
\* validator and the controller's checks whatever the stored status s and the
\* target t, is answered 200, and the stored reservation is the old one with
\* status t; nothing else changes.
C22_AnyStatusTransition ==
    [][\A s \in Slots :
          LET r == reqs[s]
              q == reqs'[s]
              oid == CastObjectId(q.id)
          IN  (/\ Stepped(s)
               /\ q.op = "updateReservation"
               /\ q.status \in StatusValues
               /\ q.clientId = AbsentId /\ q.scheduledDate \notin Dates
               /\ isValid(q.id)
               /\ oid \in DOMAIN reservations)
              => /\ r.pc = "idle" => q.pc = "checks"
                 /\ r.pc = "checks" => q.pc = "findByIdAndUpdate"
                 /\ r.pc = "findByIdAndUpdate"
                    => (/\ q.pc = "done" /\ q.code = 200
                        /\ reservations' =
                             [reservations EXCEPT ![oid].status = q.status]
                        /\ clients' = clients)
                 /\ r.pc \in {"idle", "checks"} => NoStoreChange]_vars

\* A reservation whose client is gone was Completado or Cancelado when the
\* client was deleted; a {status: "Pendiente"} patch brought it back.
C22_Witness ==
    \E s \in Slots :
       LET r == reqs[s]
           oid == CastObjectId(r.id)
       IN  /\ Answered(r, "updateReservation") /\ r.code = 200
           /\ r.status = "Pendiente"
           /\ r.clientId = AbsentId /\ r.scheduledDate \notin Dates
           /\ oid \in DOMAIN reservations
           /\ reservations[oid].status = "Pendiente"
           /\ reservations[oid].clientId \notin DOMAIN clients

\* C23: the findByIdAndDelete step of a deleteReservation request naming a
\* stored reservation answers 200 whatever the reservation's status, removes
\* that reservation and leaves every client and every other reservation as it
\* was; when the reservation is not stored (the delete is repeated) the step
\* answers 404 and changes nothing.
C23_DeleteRemovesOnlyTheReservation ==
    [][\A s \in Slots :
          LET r == reqs[s]
              q == reqs'[s]
              oid == CastObjectId(r.id)
          IN  (/\ Stepped(s)
               /\ r.op = "deleteReservation"
               /\ r.pc = "findByIdAndDelete")
              => /\ q.pc = "done"
                 /\ clients' = clients
                 /\ IF oid \in DOMAIN reservations
                    THEN /\ q.code = 200
                         /\ DOMAIN reservations' = DOMAIN reservations \ {oid}
                         /\ \A x \in DOMAIN reservations' :
                               reservations'[x] = reservations[x]
                    ELSE /\ q.code = 404
                         /\ reservations' = reservations]_vars

\* Both deletes of the same reservation are answered, the first 200 and the
\* repeated one 404, and the other reservation, a Completado one, is still
\* stored.
C23_Witness ==
    \E s, t \in Slots :
       /\ Answered(reqs[s], "deleteReservation") /\ reqs[s].code = 200
       /\ Answered(reqs[t], "deleteReservation") /\ reqs[t].code = 404
       /\ reqs[s].id = reqs[t].id
       /\ CastObjectId(reqs[s].id) \in 1..MaxListed
       /\ CastObjectId(reqs[s].id) \notin DOMAIN reservations
       /\ \E x \in DOMAIN reservations : reservations[x].status = "Completado"

\* C24: no request is answered 500 for what the caller sent: with a store
\* that never fails, every answer is 200, 201, 400 or 404, also when the body
\* passed the request validators and the model's own field rules refuse it.
C24_CallerInputNever500 ==
    \A s \in Slots :
       reqs[s].pc = "done" => reqs[s].code \in {200, 201, 400, 404}

\* C25: the save of a createClient request that passed findOne is refused by
\* the unique index when a client with its email was stored in between: the
\* step answers 400 "El email ya esta registrado" (not 500) and stores
\* nothing; otherwise it answers 201 and stores the one client with that
\* email.  Of two answered createClient requests with the same email, at
\* most one is a 201 whose client still holds the email, and at most one
\* stored client holds it.
C25_UniqueIndexBackstop ==
    /\ [][\A s \in Slots :
             LET r == reqs[s]
                 q == reqs'[s]
             IN  (/\ Stepped(s)
                  /\ r.op = "createClient" /\ r.pc = "save"
                  /\ clientSchemaValidate(newClient(r, now)))
                 => /\ q.pc = "done"
                    /\ Cardinality(FindByEmail(clients', r.email)) = 1
                    /\ IF FindByEmail(clients, r.email) # {}
                       THEN /\ q.code = 400
                            /\ q.message = "El email ya esta registrado"
                            /\ clients' = clients
                       ELSE /\ q.code = 201
                            /\ DOMAIN clients' = DOMAIN clients \cup {q.saved}
                            /\ \A c \in DOMAIN clients :
                                  clients'[c] = clients[c]]_vars
    /\ [](\A s, t \in Slots :
             (/\ s # t
              /\ Answered(reqs[s], "createClient")
              /\ Answered(reqs[t], "createClient")
              /\ CastEmail(reqs[s].email) = CastEmail(reqs[t].email))
             => /\ Cardinality(FindByEmail(clients, reqs[s].email)) <= 1
                /\ ~(/\ reqs[s].code = 201 /\ reqs[t].code = 201
                      /\ reqs[s].saved \in FindByEmail(clients, reqs[s].email)
                      /\ reqs[t].saved \in FindByEmail(clients, reqs[t].email)))

\* One request stored its client and was answered 201 while the other, with
\* the same email, had already passed findOne and is about to save.
C25_Witness ==
    \E s, t \in Slots :
       /\ Answered(reqs[s], "createClient") /\ reqs[s].code = 201
       /\ reqs[s].saved \in DOMAIN clients
       /\ reqs[t].op = "createClient" /\ reqs[t].pc = "save"
       /\ CastEmail(reqs[t].email) = CastEmail(reqs[s].email)

\* C26: a createReservation for client c and a concurrent deleteClient(c) are
\* never both successful (201 and 200), and in no reachable state is a
\* Pendiente or En proceso reservation stored whose client is not.
C26_CreateAndDeleteExclude ==
    /\ \A s, t \in Slots :
          ~(/\ Answered(reqs[s], "createReservation") /\ reqs[s].code = 201
            /\ Answered(reqs[t], "deleteClient") /\ reqs[t].code = 200
            /\ CastObjectId(reqs[s].clientId) = CastObjectId(reqs[t].id))
    /\ \A x \in DOMAIN reservations :
          reservations[x].status \in ActiveStatuses
             => reservations[x].clientId \in DOMAIN clients

\* C27: when the save of a createReservation request finds, in the model's
\* pre("save") check, that the client is not stored (the date still being in
\* the future), the request is answered 404 "Cliente no encontrado" and no
\* reservation is stored.
C27_PreSaveMissingClient404 ==
    [][\A s \in Slots :
          LET r == reqs[s]
              q == reqs'[s]
          IN  (/\ Stepped(s)
               /\ r.op = "createReservation" /\ r.pc = "save"
               /\ isFuture(r.scheduledDate, now)
               /\ CastObjectId(r.clientId) \notin DOMAIN clients)
              => (/\ q.pc = "done" /\ q.code = 404
                  /\ q.message = "Cliente no encontrado"
                  /\ reservations' = reservations)]_vars

\* C28: a request of a mutating handler that is answered 500 has left the
\* store as it was: the step that answers 500 changes neither collection, and
\* the request has stored no document before it (a createReservation answered
\* 500 has no saved reservation).
C28_ServerErrorStoresNothing ==
    [][\A s \in Slots :
          LET q == reqs'[s]
          IN  (/\ Stepped(s)
               /\ q.pc = "done" /\ q.code = 500
               /\ q.op \in {"createClient", "updateClient", "deleteClient",
                            "createReservation", "updateReservation",
                            "deleteReservation"})
              => (NoStoreChange /\ q.saved = 0)]_vars

\* C29: every request a handler has received is answered exactly once: while
\* it is in flight no response has been sent, once it is done exactly one has
\* been, never two; and, provided the store operation it awaits eventually
\* completes or fails, a request in flight is eventually answered.
C29_ExactlyOneResponse ==
    /\ [](\A s \in Slots :
             /\ reqs[s].responses <= 1
             /\ InFlight(reqs[s]) => reqs[s].responses = 0
             /\ reqs[s].pc = "done" <=> reqs[s].responses = 1)
    /\ \A s \in Slots : InFlight(reqs[s]) ~> (reqs[s].pc = "done")

\* A request whose store operation failed was answered, once, by the catch
\* block.
C29_Witness ==
    \E s \in Slots :
       /\ reqs[s].pc = "done" /\ reqs[s].code = 500
       /\ reqs[s].op = "deleteClient"
       /\ reqs[s].message = "Error al eliminar el cliente"
       /\ reqs[s].responses = 1

====
